---- MODULE Spec2Model ----
(***************************************************************************)
(* Model of pylucam's lucam.py: the LucamError code table, the Format      *)
(* marshaller, property-name resolution and the LucamCamera session, run   *)
(* against a native library whose calls each report success or failure.    *)
(***************************************************************************)
EXTENDS Integers, Sequences, FiniteSets, TLC

VARIABLES
    sess,                \* "none" before construction, "live" once a LucamCamera exists
    handle,              \* LucamCamera._handle
    fast_frames_enabled, \* LucamCamera.fast_frames_enabled
    format,              \* LucamCamera.format
    framerate,           \* LucamCamera.framerate
    width,               \* LucamCamera.width
    height,              \* LucamCamera.height
    snapshot,            \* LucamCamera.snapshot
    nativeOpen,          \* native: the camera handle is open in the library
    nativeFastFrames,    \* native: fast-frame mode of the open handle
    nativeStreaming,     \* native: video streaming of the open handle
    lastError,           \* native: last error code per handle
    lastOp,              \* the operation that ran last
    lastArg,             \* the property argument of that operation
    entryFlag,           \* fast_frames_enabled when that operation was entered
    result,              \* how it ended: returned or raised
    trace,               \* the native calls it issued, in order
    errValue,            \* LucamError.value of an error being rendered
    rendered,            \* outcome of str(error)
    fmtIn,               \* a Format record being marshalled
    fmtNative,           \* the LUCAM_FRAME_FORMAT produced from it
    fmtOut,              \* the Format read back from that
    edits                \* number of field assignments made to fmtIn

sessionVars == <<sess, handle, fast_frames_enabled, format, framerate, width,
                 height, snapshot, nativeOpen, nativeFastFrames, nativeStreaming,
                 lastError, lastOp, lastArg, entryFlag, result, trace>>
errorVars == <<errValue, rendered>>
formatVars == <<fmtIn, fmtNative, fmtOut, edits>>
vars == <<sessionVars, errorVars, formatVars>>

----------------------------------------------------------------------------
(* Bounds of the model *)

MaxIndex == 1       \* camera indices passed to the constructor: 0..MaxIndex
MaxFmt == 2         \* distinct frame formats the camera may report
MaxEdits == 2       \* field assignments made to a Format before marshalling
CodeMargin == 2     \* error values tried on each side of the table's range

----------------------------------------------------------------------------
(* Text: Python str values are sequences of one-character strings *)

LowerLetters == <<"a", "b", "c", "d", "e", "f", "g", "h", "i", "j", "k", "l", "m",
                  "n", "o", "p", "q", "r", "s", "t", "u", "v", "w", "x", "y", "z">>
UpperLetters == <<"A", "B", "C", "D", "E", "F", "G", "H", "I", "J", "K", "L", "M",
                  "N", "O", "P", "Q", "R", "S", "T", "U", "V", "W", "X", "Y", "Z">>

IsCapital(c) == \E i \in DOMAIN UpperLetters : UpperLetters[i] = c

IsSpace(c) == c = " "

\* str.upper on one character
UpperChar(c) ==
    IF \E i \in DOMAIN LowerLetters : LowerLetters[i] = c
    THEN UpperLetters[CHOOSE i \in DOMAIN LowerLetters : LowerLetters[i] = c]
    ELSE c

\* str.upper
StrUpper(s) == [i \in DOMAIN s |-> UpperChar(s[i])]

Contains(s, c) == \E i \in DOMAIN s : s[i] = c

\* re.sub(r"([A-Z])", r" \1", s): a space goes in front of every capital
RECURSIVE SubCapitals(_)
SubCapitals(s) ==
    IF s = <<>> THEN <<>>
    ELSE (IF IsCapital(Head(s)) THEN <<" ", Head(s)>> ELSE <<Head(s)>>)
         \o SubCapitals(Tail(s))

\* str.split(): the maximal runs of non-space characters, in order
RECURSIVE SplitFrom(_, _, _)
SplitFrom(s, word, words) ==
    IF s = <<>> THEN (IF word = <<>> THEN words ELSE Append(words, word))
    ELSE IF IsSpace(Head(s))
         THEN SplitFrom(Tail(s), <<>>, IF word = <<>> THEN words ELSE Append(words, word))
         ELSE SplitFrom(Tail(s), Append(word, Head(s)), words)

Split(s) == SplitFrom(s, <<>>, <<>>)

\* "_".join(words)
RECURSIVE JoinUnderscore(_)
JoinUnderscore(words) ==
    IF words = <<>> THEN <<>>
    ELSE IF Len(words) = 1 THEN words[1]
    ELSE words[1] \o <<"_">> \o JoinUnderscore(Tail(words))

IsPrefixAt(s, i, pat) ==
    /\ i + Len(pat) - 1 <= Len(s)
    /\ \A j \in 1..Len(pat) : s[i + j - 1] = pat[j]

\* pat in s
HasSubstring(s, pat) == \E i \in 1..Len(s) : IsPrefixAt(s, i, pat)

\* s.replace(old, new): leftmost non-overlapping occurrences
RECURSIVE ReplaceFrom(_, _, _, _)
ReplaceFrom(s, i, old, new) ==
    IF i > Len(s) THEN <<>>
    ELSE IF IsPrefixAt(s, i, old)
         THEN new \o ReplaceFrom(s, i + Len(old), old, new)
         ELSE <<s[i]>> \o ReplaceFrom(s, i + 1, old, new)

Replace(s, old, new) == ReplaceFrom(s, 1, old, new)

----------------------------------------------------------------------------
(* LucamError: the CODES table and __str__ *)

\* LucamError.CODES: every key of the table with the first line of its text
CODES ==
    0 :> "NoError" @@ 1 :> "NoSuchIndex" @@ 2 :> "SnapshotNotSupported" @@ 3 :> "InvalidPixelFormat" @@
    4 :> "SubsamplingZero" @@ 5 :> "Busy" @@ 6 :> "FailedToSetSubsampling" @@ 7 :> "FailedToSetStartPosition" @@
    8 :> "PixelFormatNotSupported" @@ 9 :> "InvalidFrameFormat" @@ 10 :> "PreparationFailed" @@ 11 :> "CannotRun" @@
    12 :> "NoTriggerControl" @@ 13 :> "NoPin" @@ 14 :> "NotRunning" @@ 15 :> "TriggerFailed" @@
    16 :> "CannotSetupFrameFormat" @@ 17 :> "DirectShowInitError" @@ 18 :> "CameraNotFound" @@ 19 :> "Timeout" @@
    20 :> "PropertyUnknown" @@ 21 :> "PropertyUnsupported" @@ 22 :> "PropertyAccessFailed" @@ 23 :> "LucustomNotFound" @@
    24 :> "PreviewNotRunning" @@ 25 :> "LutfNotLoaded" @@ 26 :> "DirectShowError" @@ 27 :> "NoMoreCallbacks" @@
    28 :> "UndeterminedFrameFormat" @@ 29 :> "InvalidParameter" @@ 30 :> "NotEnoughResources" @@ 31 :> "NoSuchConversion" @@
    32 :> "ParameterNotWithinBoundaries" @@ 33 :> "BadFileIo" @@ 34 :> "GdiplusNotFound" @@ 35 :> "GdiplusError" @@
    36 :> "UnknownFormatType" @@ 37 :> "FailedCreateDisplay" @@ 38 :> "DpLibNotFound" @@ 39 :> "DpCmdNotSupported" @@
    40 :> "DpCmdUnknown" @@ 41 :> "NotWhilePaused" @@ 42 :> "CaptureFailed" @@ 43 :> "DpError" @@
    44 :> "NoSuchFrameRate" @@ 45 :> "InvalidTarget" @@ 46 :> "FrameTooDark" @@ 47 :> "KsPropertySetNotFound" @@
    48 :> "Cancelled" @@ 49 :> "KsControlNotSupported" @@ 50 :> "EventNotSupported" @@ 51 :> "NoPreview" @@
    52 :> "SetPositionFailed" @@ 53 :> "NoFrameRateList" @@ 54 :> "FrameRateInconsistent" @@ 55 :> "CameraNotConfiguredForCmd" @@
    56 :> "GraphNotReady" @@ 57 :> "CallbackSetupError" @@ 58 :> "InvalidTriggerMode" @@ 59 :> "NotFound" @@
    60 :> "EepromTooSmall" @@ 61 :> "EepromWriteFailed" @@ 62 :> "UnknownFileType" @@ 63 :> "EventIdNotSupported" @@
    64 :> "EepromCorrupted" @@ 65 :> "SectionTooBig" @@ 66 :> "FrameTooBright" @@ 67 :> "NoCorrectionMatrix" @@
    68 :> "UnknownCameraModel" @@ 69 :> "ApiTooOld" @@ 70 :> "SaturationZero" @@ 71 :> "AlreadyInitialised" @@
    72 :> "SameInputAndOutputFile" @@ 73 :> "FileConversionFailed" @@ 74 :> "FileAlreadyConverted" @@ 75 :> "PropertyPageNotSupported" @@
    76 :> "PropertyPageCreationFailed" @@ 77 :> "DirectShowFilterNotInstalled" @@ 78 :> "IndividualLutNotAvailable" @@ 79 :> "UnexpectedError" @@
    80 :> "StreamingStopped" @@ 81 :> "MustBeInSwTriggerMode" @@ 82 :> "TargetFlaky" @@ 83 :> "AutoLensUninitialized" @@
    84 :> "LensNotInstalled" @@ 85 :> "UnknownError" @@ 86 :> "FocusNoFeedbackError" @@ 87 :> "LutfTooOld" @@
    88 :> "UnknownAviFormat" @@ 89 :> "UnknownAviType" @@ 90 :> "InvalidAviConversion" @@ 91 :> "SeekFailed" @@
    92 :> "AviRunning" @@ 93 :> "CameraAlreadyOpened" @@ 94 :> "NoSubsampledHighRes" @@ 95 :> "OnlyOnMonochrome" @@
    96 :> "No8bppTo48bpp" @@ 97 :> "Lut8Obsolete" @@ 98 :> "FunctionNotSupported" @@ 99 :> "RetryLimitReached"

NotRendered == [kind |-> "none", text |-> ""]

\* a variant that falls back to a placeholder text, as dict.get would
LucamError_str_Placeholder(value) ==
    [kind |-> "text", text |-> IF value \in DOMAIN CODES THEN CODES[value] ELSE "Unknown"]

\* LucamError.__str__: self.CODES[self.value]; a missing key is a KeyError
LucamError_str(value) ==
    IF value \in DOMAIN CODES
    THEN [kind |-> "text", text |-> CODES[value]]
    ELSE [kind |-> "KeyError", text |-> ""]

----------------------------------------------------------------------------
(* Format and its native layout *)

\* Format.__annotations__, in declaration order
FormatAttrs == <<"xOffset", "yOffset", "width", "height", "pixelFormat",
                 "subSampleX", "binningX", "flagsX", "subSampleY", "binningY", "flagsY">>

FormatAttrSet == {FormatAttrs[i] : i \in DOMAIN FormatAttrs}

UShortMax == 65535

\* LUCAM_FRAME_FORMAT: one slot per field, five ULONG then six USHORT
NativeSlot(attr) == CHOOSE i \in DOMAIN FormatAttrs : FormatAttrs[i] = attr

\* the values a field's C type holds; the ULONG maximum 2^32 - 1 lies above
\* every integer of the model, so a ULONG field refuses only negative values
InNativeRange(attr, v) ==
    IF NativeSlot(attr) <= 5 THEN v >= 0 ELSE v \in 0..UShortMax

\* ffi.new("LUCAM_FRAME_FORMAT *"): zero-initialised
NewFrameFormat == [i \in DOMAIN FormatAttrs |-> 0]

NoFormat == [a \in FormatAttrSet |-> 0]

\* a variant that reads binningX from the subSampleX slot
Format_from_lucam_Aliased(lucam_frame_format) ==
    [a \in FormatAttrSet |->
        lucam_frame_format[NativeSlot(IF a = "binningX" THEN "subSampleX" ELSE a)]]

\* Format.from_lucam: kwargs[attr] = getattr(lucam_frame_format, attr)
Format_from_lucam(lucam_frame_format) ==
    [a \in FormatAttrSet |-> lucam_frame_format[NativeSlot(a)]]

\* Format.as_lucam: setattr(lucam_frame_format, attr, getattr(self, attr)) for
\* each attribute in turn; an integer outside the C field's range is refused
RECURSIVE SetAttrsFrom(_, _, _)
SetAttrsFrom(self, i, lucam_frame_format) ==
    IF i > Len(FormatAttrs) THEN [kind |-> "struct", struct |-> lucam_frame_format]
    ELSE LET attr == FormatAttrs[i] IN
         IF ~InNativeRange(attr, self[attr])
         THEN [kind |-> "OverflowError", struct |-> NewFrameFormat]
         ELSE SetAttrsFrom(self, i + 1,
                           [lucam_frame_format EXCEPT ![NativeSlot(attr)] = self[attr]])

Format_as_lucam(self) == SetAttrsFrom(self, 1, NewFrameFormat)

\* the frame formats the camera reports: width k, height k + 1
CameraFormat(k) == [NewFrameFormat EXCEPT ![NativeSlot("width")] = k,
                                          ![NativeSlot("height")] = k + 1]

CameraFormats == {CameraFormat(k) : k \in 1..MaxFmt}

\* the frame rate reported along with format k
CameraRate(lucam_frame_format) == 15 * lucam_frame_format[NativeSlot("width")]

----------------------------------------------------------------------------
(* Property identifiers *)

\* a native property id: a symbol of the library, or a caller's raw integer
SymbolId(name) == [sym |-> name, raw |-> 0]
RawId(n) == [sym |-> "", raw |-> n]
NoArg == [sym |-> "", raw |-> 0]

LUCAM_PROP_ == <<"L", "U", "C", "A", "M", "_", "P", "R", "O", "P", "_">>

\* the LUCAM_PROP_ symbols the bound library defines that the wrapper refers to
LibSymbols ==
    { [name |-> LUCAM_PROP_ \o <<"E", "X", "P", "O", "S", "U", "R", "E">>,
       const |-> "LUCAM_PROP_EXPOSURE"],
      [name |-> LUCAM_PROP_ \o <<"G", "A", "I", "N">>,
       const |-> "LUCAM_PROP_GAIN"],
      [name |-> LUCAM_PROP_ \o <<"G", "A", "I", "N", "_", "R", "E", "D">>,
       const |-> "LUCAM_PROP_GAIN_RED"],
      [name |-> LUCAM_PROP_ \o <<"G", "A", "I", "N", "_", "B", "L", "U", "E">>,
       const |-> "LUCAM_PROP_GAIN_BLUE"],
      [name |-> LUCAM_PROP_ \o <<"G", "A", "I", "N", "_", "G", "R", "E", "E", "N", "1">>,
       const |-> "LUCAM_PROP_GAIN_GREEN1"],
      [name |-> LUCAM_PROP_ \o <<"G", "A", "I", "N", "_", "G", "R", "E", "E", "N", "2">>,
       const |-> "LUCAM_PROP_GAIN_GREEN2"] }

\* getattr(self.lib, name): the symbol's value, or AttributeError
LibGetattr(name) ==
    IF \E s \in LibSymbols : s.name = name
    THEN [ok |-> TRUE, id |-> SymbolId((CHOOSE s \in LibSymbols : s.name = name).const)]
    ELSE [ok |-> FALSE, id |-> NoArg]

\* class LucamProperty(Enum): member name -> value
LucamProperty ==
    [gain |-> SymbolId("LUCAM_PROP_GAIN"),
     gain_red |-> SymbolId("LUCAM_PROP_GAIN_RED"),
     gain_blue |-> SymbolId("LUCAM_PROP_GAIN_BLUE"),
     gain_green1 |-> SymbolId("LUCAM_PROP_GAIN_GREEN1"),
     gain_green2 |-> SymbolId("LUCAM_PROP_GAIN_GREEN2")]

\* the three kinds of argument: an enum member, a raw int, a text name
EnumArg(member) == [kind |-> "enum", member |-> member, raw |-> 0, text |-> <<>>]
IntArg(n) == [kind |-> "int", member |-> "", raw |-> n, text |-> <<>>]
StrArg(text) == [kind |-> "str", member |-> "", raw |-> 0, text |-> text]

\* lines 419-420: a name with no "_" is split before capitals and rejoined
NormalizeName(text) ==
    IF ~Contains(text, "_")
    THEN JoinUnderscore(Split(SubCapitals(text)))
    ELSE text

\* LucamCamera._property_value
property_value_of(property) ==
    CASE property.kind = "enum" -> [ok |-> TRUE, id |-> LucamProperty[property.member]]
      [] property.kind = "int" -> [ok |-> TRUE, id |-> RawId(property.raw)]
      [] property.kind = "str" ->
            LibGetattr(LUCAM_PROP_ \o StrUpper(NormalizeName(property.text)))

----------------------------------------------------------------------------
(* Snapshot *)

\* Snapshot.__annotations__, in declaration order, as attribute names and as text
SnapshotAttrs == <<"exposure", "gain", "gainRed", "gainBlue", "gainGrn1", "gainGrn2",
                   "timeout", "format">>

SnapshotText ==
    [exposure |-> <<"e", "x", "p", "o", "s", "u", "r", "e">>,
     gain |-> <<"g", "a", "i", "n">>,
     gainRed |-> <<"g", "a", "i", "n", "R", "e", "d">>,
     gainBlue |-> <<"g", "a", "i", "n", "B", "l", "u", "e">>,
     gainGrn1 |-> <<"g", "a", "i", "n", "G", "r", "n", "1">>,
     gainGrn2 |-> <<"g", "a", "i", "n", "G", "r", "n", "2">>,
     timeout |-> <<"t", "i", "m", "e", "o", "u", "t">>,
     format |-> <<"f", "o", "r", "m", "a", "t">>]

Grn == <<"G", "r", "n">>
Green == <<"G", "r", "e", "e", "n">>

\* a property value is kept as the id of the property it was read from
Reading(id) == id

NoSnapshot == [exposure |-> NoArg, gain |-> NoArg, gainRed |-> NoArg, gainBlue |-> NoArg,
               gainGrn1 |-> NoArg, gainGrn2 |-> NoArg, timeout |-> 0, format |-> NoFormat]

----------------------------------------------------------------------------
(* The native library: every call reports success or failure *)

NullHandle == 0
CameraHandle == 1
Handles == {NullHandle, CameraHandle}

\* the code a failing call leaves for LucamGetLastErrorForCamera ("Busy")
ErrCodes == {5}

\* for operations that never query the format
NoFmt == {NewFrameFormat}

\* what the library does during an operation of at most n native calls: which
\* call fails (0 = none), the code the failure leaves, and the format it
\* reports, which is read only when no call up to the k-th fails
Envs(n, k, fmts) ==
    {[failAt |-> 0, err |-> 0, fmt |-> f] : f \in fmts}
    \cup [failAt : 1..k, err : ErrCodes, fmt : NoFmt]
    \cup [failAt : (k + 1)..n, err : ErrCodes, fmt : fmts]

CallOk(m, env) == Len(m.trace) + 1 # env.failAt

\* the session's handle is the open camera
Live(m) == m.handle = CameraHandle /\ m.nativeOpen

\* one native call on the session's handle: logged, and a failure leaves its code
Record(m, env, fn, arg, shape, ok) ==
    [m EXCEPT !.trace = Append(@, [fn |-> fn, handle |-> m.handle, arg |-> arg,
                                   shape |-> shape, ok |-> ok,
                                   flag |-> m.fast_frames_enabled]),
              !.lastError = IF ok THEN @ ELSE [@ EXCEPT ![m.handle] = env.err]]

LastOk(m) == m.trace[Len(m.trace)].ok

NoShape == <<0, 0>>

\* LucamCameraOpen(number): a handle, or NULL for an index below 1 or no camera
LucamCameraOpen(m, env, number) ==
    LET ok == number >= 1 /\ CallOk(m, env) IN
    [m EXCEPT !.trace = Append(@, [fn |-> "LucamCameraOpen", handle |-> NullHandle,
                                   arg |-> RawId(number), shape |-> NoShape, ok |-> ok,
                                   flag |-> m.fast_frames_enabled]),
              !.handle = IF ok THEN CameraHandle ELSE NullHandle,
              !.nativeOpen = @ \/ ok]

LucamGetProperty(m, env, id) == Record(m, env, "LucamGetProperty", id, NoShape, CallOk(m, env))

LucamSetProperty(m, env, id) == Record(m, env, "LucamSetProperty", id, NoShape, CallOk(m, env))

LucamGetFormat(m, env) == Record(m, env, "LucamGetFormat", NoArg, NoShape, CallOk(m, env))

LucamEnableFastFrames(m, env) ==
    LET ok == CallOk(m, env) IN
    [Record(m, env, "LucamEnableFastFrames", NoArg, NoShape, ok)
     EXCEPT !.nativeFastFrames = IF ok /\ Live(m) THEN TRUE ELSE @]

LucamDisableFastFrames(m, env) ==
    LET ok == CallOk(m, env) IN
    [Record(m, env, "LucamDisableFastFrames", NoArg, NoShape, ok)
     EXCEPT !.nativeFastFrames = IF ok /\ Live(m) THEN FALSE ELSE @]

LucamTakeFastFrame(m, env, shape) ==
    Record(m, env, "LucamTakeFastFrame", NoArg, shape, CallOk(m, env))

LucamStreamVideoControl(m, env, ctrl) ==
    LET ok == CallOk(m, env) IN
    [Record(m, env, "LucamStreamVideoControl", SymbolId(ctrl), NoShape, ok)
     EXCEPT !.nativeStreaming = IF ok /\ Live(m) THEN ctrl = "START_STREAMING" ELSE @]

LucamOneShotAutoWhiteBalance(m, env, shape) ==
    Record(m, env, "LucamOneShotAutoWhiteBalance", NoArg, shape, CallOk(m, env))

LucamCameraClose(m, env) ==
    LET ok == CallOk(m, env) IN
    [Record(m, env, "LucamCameraClose", NoArg, NoShape, ok)
     EXCEPT !.nativeOpen = IF ok /\ Live(m) THEN FALSE ELSE @,
            !.nativeFastFrames = IF ok /\ Live(m) THEN FALSE ELSE @,
            !.nativeStreaming = IF ok /\ Live(m) THEN FALSE ELSE @]

\* enum members callers pass
EnumInputs == {"gain_red", "gain_green1"}

\* raw property ids callers pass
RawInputs == {40}

\* text names callers pass to get_property and set_property
NameInputs ==
    { <<"g", "a", "i", "n", "R", "e", "d">>,
      <<"g", "a", "i", "n", "_", "r", "e", "d">>,
      <<"g", "a", "i", "n", " ", "g", "r", "e", "e", "n", "1">>,
      <<"G", "a", "i", "n", "G", "r", "n", "1">>,
      <<"g", "a", "i", "n", "_", "G", "r", "e", "e", "n", "2">>,
      <<"g", "a", "i", "n", "R", "E", "D">> }



\* region sizes callers pass to white_balance: 0 is the None default
RegionInputs == {0}

\* native calls an operation issues at most
SnapshotCalls == Len(SnapshotAttrs) - 1
OpenCalls == 2 + SnapshotCalls
WhiteBalanceCalls == 5 + SnapshotCalls

PropertyInputs ==
    {EnumArg(e) : e \in EnumInputs} \cup {IntArg(n) : n \in RawInputs}
    \cup {StrArg(t) : t \in NameInputs}

\* a variant that queries the attribute names as written, "Grn" included
SnapshotProperty_NoTranslation(attr) == StrArg(SnapshotText[attr])

\* lines 463-466: the name get_default_snapshot passes to get_property
SnapshotProperty(attr) ==
    IF HasSubstring(SnapshotText[attr], Grn)
    THEN StrArg(Replace(SnapshotText[attr], Grn, Green))
    ELSE StrArg(SnapshotText[attr])

\* every argument _property_value is called with
PropertyArgs ==
    PropertyInputs \cup {SnapshotProperty(SnapshotAttrs[i]) : i \in 1..Len(SnapshotAttrs)}

\* _property_value, tabulated over those arguments
PropertyValues == [property \in PropertyArgs |-> property_value_of(property)]

property_value(property) == PropertyValues[property]

----------------------------------------------------------------------------
(* LucamCamera: the methods, as steps over the session and the library *)

Returned == [kind |-> "ok", value |-> 0]

\* a step runs only while no exception is propagating
Running(m) == m.exc.kind = "ok"

\* LucamCamera.get_last_error
get_last_error(m) == m.lastError[m.handle]

\* raise LucamError(self): the error carries get_last_error()
RaiseLucamError(m) ==
    [m EXCEPT !.exc = [kind |-> "LucamError", value |-> get_last_error(m)]]

RaiseAttributeError(m) == [m EXCEPT !.exc = [kind |-> "AttributeError", value |-> 0]]

\* LucamCamera.get_property; the value read is left in m.ret
get_property(m, env, property) ==
    IF ~Running(m) THEN m
    ELSE LET p == property_value(property) IN
         IF ~p.ok THEN RaiseAttributeError(m)
         ELSE LET m1 == LucamGetProperty(m, env, p.id) IN
              IF ~LastOk(m1) THEN RaiseLucamError(m1)
              ELSE [m1 EXCEPT !.ret = Reading(p.id)]

\* LucamCamera.set_property
set_property(m, env, property) ==
    IF ~Running(m) THEN m
    ELSE LET p == property_value(property) IN
         IF ~p.ok THEN RaiseAttributeError(m)
         ELSE LET m1 == LucamSetProperty(m, env, p.id) IN
              IF ~LastOk(m1) THEN RaiseLucamError(m1) ELSE m1

\* a variant that caches the format and frame rate but keeps the old size
get_format_StaleSize(m, env) ==
    IF ~Running(m) THEN m
    ELSE LET m1 == LucamGetFormat(m, env) IN
         IF ~LastOk(m1) THEN RaiseLucamError(m1)
         ELSE [m1 EXCEPT !.format = Format_from_lucam(env.fmt),
                         !.framerate = CameraRate(env.fmt)]

\* LucamCamera.get_format
get_format(m, env) ==
    IF ~Running(m) THEN m
    ELSE LET m1 == LucamGetFormat(m, env) IN
         IF ~LastOk(m1) THEN RaiseLucamError(m1)
         ELSE LET fmt == Format_from_lucam(env.fmt) IN
              [m1 EXCEPT !.format = fmt, !.framerate = CameraRate(env.fmt),
                         !.width = fmt.width, !.height = fmt.height]

\* the loop of get_default_snapshot over Snapshot.__annotations__ from index i
RECURSIVE SnapshotLoop(_, _, _, _)
SnapshotLoop(m, env, i, kwargs) ==
    IF ~Running(m) THEN m
    ELSE IF i > Len(SnapshotAttrs) THEN [m EXCEPT !.snapshot = kwargs]
    ELSE LET attr == SnapshotAttrs[i] IN
         IF attr = "format"
         THEN LET m1 == get_format(m, env) IN
              SnapshotLoop(m1, env, i + 1, [kwargs EXCEPT ![attr] = m1.format])
         ELSE IF attr = "timeout"
         THEN SnapshotLoop(m, env, i + 1, [kwargs EXCEPT ![attr] = 100])
         ELSE LET m1 == get_property(m, env, SnapshotProperty(attr)) IN
              SnapshotLoop(m1, env, i + 1, [kwargs EXCEPT ![attr] = m1.ret])

\* LucamCamera.get_default_snapshot
get_default_snapshot(m, env) == SnapshotLoop(m, env, 1, NoSnapshot)

\* a variant that sets the flag before testing the call's status
enable_fast_frames_FlagFirst(m, env) ==
    IF ~Running(m) THEN m
    ELSE LET m1 == [LucamEnableFastFrames(m, env) EXCEPT !.fast_frames_enabled = TRUE] IN
         IF ~LastOk(m1) THEN RaiseLucamError(m1) ELSE m1

\* LucamCamera.enable_fast_frames
enable_fast_frames(m, env) ==
    IF ~Running(m) THEN m
    ELSE LET m1 == LucamEnableFastFrames(m, env) IN
         IF ~LastOk(m1) THEN RaiseLucamError(m1)
         ELSE [m1 EXCEPT !.fast_frames_enabled = TRUE]

\* a variant that clears the flag before testing the call's status
disable_fast_frames_FlagFirst(m, env) ==
    IF ~Running(m) THEN m
    ELSE LET m1 == [LucamDisableFastFrames(m, env) EXCEPT !.fast_frames_enabled = FALSE] IN
         IF ~LastOk(m1) THEN RaiseLucamError(m1) ELSE m1

\* LucamCamera.disable_fast_frames
disable_fast_frames(m, env) ==
    IF ~Running(m) THEN m
    ELSE LET m1 == LucamDisableFastFrames(m, env) IN
         IF ~LastOk(m1) THEN RaiseLucamError(m1)
         ELSE [m1 EXCEPT !.fast_frames_enabled = FALSE]

\* LucamCamera.take_fast_frame
take_fast_frame(m, env) ==
    IF ~Running(m) THEN m
    ELSE LET m1 == LucamTakeFastFrame(m, env, <<m.height, m.width>>) IN
         IF ~LastOk(m1) THEN RaiseLucamError(m1) ELSE m1

\* one status-checked native step of white_balance
Checked(m1) == IF ~LastOk(m1) THEN RaiseLucamError(m1) ELSE m1

\* lines 511-514
StartStreaming(m, env) ==
    IF ~Running(m) THEN m
    ELSE Checked(LucamStreamVideoControl(m, env, "START_STREAMING"))

\* lines 515-518
OneShotAutoWhiteBalance(m, env, shape) ==
    IF ~Running(m) THEN m ELSE Checked(LucamOneShotAutoWhiteBalance(m, env, shape))

\* lines 519-522
StopStreaming(m, env) ==
    IF ~Running(m) THEN m
    ELSE Checked(LucamStreamVideoControl(m, env, "STOP_STREAMING"))

\* a variant that starts streaming without disabling fast frames first
white_balance_NoDisable(m, env, w, h) ==
    LET shape == <<IF h = 0 THEN m.height ELSE h, IF w = 0 THEN m.width ELSE w>>
        m2 == StartStreaming(m, env)
        m3 == OneShotAutoWhiteBalance(m2, env, shape)
        m4 == StopStreaming(m3, env)
        m5 == get_default_snapshot(m4, env)
    IN enable_fast_frames(m5, env)

\* a variant that stops the stream and re-enables fast frames after a failure
white_balance_Rollback(m, env, w, h) ==
    LET shape == <<IF h = 0 THEN m.height ELSE h, IF w = 0 THEN m.width ELSE w>>
        m1 == IF m.fast_frames_enabled THEN disable_fast_frames(m, env) ELSE m
        m2 == StartStreaming(m1, env)
        m3 == OneShotAutoWhiteBalance(m2, env, shape)
        m4 == StopStreaming(m3, env)
        m5 == get_default_snapshot(m4, env)
        m6 == enable_fast_frames(m5, env)
        quiet == [env EXCEPT !.failAt = 0]
    IN IF Running(m6) THEN m6
       ELSE [enable_fast_frames([m6 EXCEPT !.exc = Returned], quiet) EXCEPT !.exc = m6.exc]

\* a variant that re-enables fast frames only if they were enabled at entry
white_balance_RestoreMode(m, env, w, h) ==
    LET shape == <<IF h = 0 THEN m.height ELSE h, IF w = 0 THEN m.width ELSE w>>
        m1 == IF m.fast_frames_enabled THEN disable_fast_frames(m, env) ELSE m
        m2 == StartStreaming(m1, env)
        m3 == OneShotAutoWhiteBalance(m2, env, shape)
        m4 == StopStreaming(m3, env)
        m5 == get_default_snapshot(m4, env)
    IN IF m.fast_frames_enabled THEN enable_fast_frames(m5, env) ELSE m5

\* LucamCamera.white_balance; w, h = 0 stand for the None defaults
white_balance(m, env, w, h) ==
    LET shape == <<IF h = 0 THEN m.height ELSE h, IF w = 0 THEN m.width ELSE w>>
        m1 == IF m.fast_frames_enabled THEN disable_fast_frames(m, env) ELSE m
        m2 == StartStreaming(m1, env)
        m3 == OneShotAutoWhiteBalance(m2, env, shape)
        m4 == StopStreaming(m3, env)
        m5 == get_default_snapshot(m4, env)
    IN enable_fast_frames(m5, env)

\* a variant that forgets the handle once the camera is closed
camera_close_ClearHandle(m, env) ==
    IF ~Running(m) THEN m
    ELSE LET m1 == LucamCameraClose(m, env) IN
         IF ~LastOk(m1) THEN RaiseLucamError(m1) ELSE [m1 EXCEPT !.handle = NullHandle]

\* LucamCamera.camera_close
camera_close(m, env) ==
    IF ~Running(m) THEN m
    ELSE LET m1 == LucamCameraClose(m, env) IN
         IF ~LastOk(m1) THEN RaiseLucamError(m1) ELSE m1

\* LucamCamera.__init__
init(m, env, number) ==
    LET m1 == LucamCameraOpen(m, env, number)
        m2 == get_format(m1, env)
    IN get_default_snapshot(m2, env)

----------------------------------------------------------------------------
(* The session as a state machine: one action per public operation *)

NoProperty == IntArg(0)

\* the session and the library as the methods see them on entry
Cur ==
    [handle |-> handle, fast_frames_enabled |-> fast_frames_enabled,
     format |-> format, framerate |-> framerate, width |-> width, height |-> height,
     snapshot |-> snapshot, nativeOpen |-> nativeOpen,
     nativeFastFrames |-> nativeFastFrames, nativeStreaming |-> nativeStreaming,
     lastError |-> lastError, trace |-> <<>>, exc |-> Returned, ret |-> NoArg]

\* a class-level LucamCamera before __init__ has run: lines 398-405
Fresh ==
    [Cur EXCEPT !.handle = NullHandle, !.fast_frames_enabled = FALSE,
                !.format = NoFormat, !.framerate = 30, !.width = 0, !.height = 0,
                !.snapshot = NoSnapshot]

\* the state the operation leaves behind
Commit(op, arg, m) ==
    /\ handle' = m.handle
    /\ fast_frames_enabled' = m.fast_frames_enabled
    /\ format' = m.format
    /\ framerate' = m.framerate
    /\ width' = m.width
    /\ height' = m.height
    /\ snapshot' = m.snapshot
    /\ nativeOpen' = m.nativeOpen
    /\ nativeFastFrames' = m.nativeFastFrames
    /\ nativeStreaming' = m.nativeStreaming
    /\ lastError' = m.lastError
    /\ lastOp' = op
    /\ lastArg' = arg
    /\ entryFlag' = fast_frames_enabled
    /\ result' = m.exc
    /\ trace' = m.trace
    /\ UNCHANGED <<errorVars, formatVars>>

\* LucamCamera(number): an exception in __init__ leaves no object behind
Open(number, env) ==
    /\ sess = "none"
    /\ \E m \in {init(Fresh, env, number)} :
       /\ sess' = IF Running(m) THEN "live" ELSE "none"
       /\ Commit("open", IntArg(number),
                 IF Running(m) THEN m
                 ELSE [Fresh EXCEPT !.nativeOpen = m.nativeOpen,
                                    !.lastError = m.lastError,
                                    !.trace = m.trace, !.exc = m.exc])

GetProperty(property, env) ==
    /\ sess = "live"
    /\ sess' = sess
    /\ \E m \in {get_property(Cur, env, property)} : Commit("get_property", property, m)

SetProperty(property, env) ==
    /\ sess = "live"
    /\ sess' = sess
    /\ \E m \in {set_property(Cur, env, property)} : Commit("set_property", property, m)

GetFormat(env) ==
    /\ sess = "live"
    /\ sess' = sess
    /\ \E m \in {get_format(Cur, env)} : Commit("get_format", NoProperty, m)

GetDefaultSnapshot(env) ==
    /\ sess = "live"
    /\ sess' = sess
    /\ \E m \in {get_default_snapshot(Cur, env)} : Commit("get_default_snapshot", NoProperty, m)

EnableFastFrames(env) ==
    /\ sess = "live"
    /\ sess' = sess
    /\ \E m \in {enable_fast_frames(Cur, env)} : Commit("enable_fast_frames", NoProperty, m)

DisableFastFrames(env) ==
    /\ sess = "live"
    /\ sess' = sess
    /\ \E m \in {disable_fast_frames(Cur, env)} : Commit("disable_fast_frames", NoProperty, m)

TakeFastFrame(env) ==
    /\ sess = "live"
    /\ sess' = sess
    /\ \E m \in {take_fast_frame(Cur, env)} : Commit("take_fast_frame", NoProperty, m)

WhiteBalance(w, h, env) ==
    /\ sess = "live"
    /\ sess' = sess
    /\ \E m \in {white_balance(Cur, env, w, h)} : Commit("white_balance", NoProperty, m)

CameraClose(env) ==
    /\ sess = "live"
    /\ sess' = sess
    /\ \E m \in {camera_close(Cur, env)} : Commit("camera_close", NoProperty, m)

SessionInit ==
    /\ sess = "none"
    /\ handle = NullHandle
    /\ fast_frames_enabled = FALSE
    /\ format = NoFormat
    /\ framerate = 30
    /\ width = 0
    /\ height = 0
    /\ snapshot = NoSnapshot
    /\ nativeOpen = FALSE
    /\ nativeFastFrames = FALSE
    /\ nativeStreaming = FALSE
    /\ lastError = [h \in Handles |-> 0]
    /\ lastOp = "none"
    /\ lastArg = NoProperty
    /\ entryFlag = FALSE
    /\ result = Returned
    /\ trace = <<>>

ErrorInit ==
    /\ errValue = 0
    /\ rendered = NotRendered

NotMarshalled == [kind |-> "none", struct |-> NewFrameFormat]
NotRead == [kind |-> "none", value |-> NoFormat]

FormatInit ==
    /\ fmtIn = NoFormat
    /\ fmtNative = NotMarshalled
    /\ fmtOut = NotRead
    /\ edits = 0

Init == SessionInit /\ ErrorInit /\ FormatInit

Next ==
    \/ \E number \in 0..MaxIndex, env \in Envs(OpenCalls, 0, CameraFormats) :
          Open(number, env)
    \/ \E property \in PropertyInputs, env \in Envs(1, 1, NoFmt) : GetProperty(property, env)
    \/ \E property \in PropertyInputs, env \in Envs(1, 1, NoFmt) : SetProperty(property, env)
    \/ \E env \in Envs(1, 1, CameraFormats) : GetFormat(env)
    \/ \E env \in Envs(SnapshotCalls, SnapshotCalls, CameraFormats) : GetDefaultSnapshot(env)
    \/ \E env \in Envs(1, 1, NoFmt) : EnableFastFrames(env)
    \/ \E env \in Envs(1, 1, NoFmt) : DisableFastFrames(env)
    \/ \E env \in Envs(1, 1, NoFmt) : TakeFastFrame(env)
    \/ \E w \in RegionInputs, env \in Envs(WhiteBalanceCalls, WhiteBalanceCalls - 2, CameraFormats) :
          WhiteBalance(w, w, env)
    \/ \E env \in Envs(1, 1, NoFmt) : CameraClose(env)

Spec == Init /\ [][Next]_vars

----------------------------------------------------------------------------
(* Rendering an error: LucamError.__init__ then __str__ *)

\* the last key of CODES
MaxCode == 99

\* values LucamGetLastErrorForCamera may hand to LucamError.__init__
ErrValues == (0 - CodeMargin)..(MaxCode + CodeMargin)

\* LucamError.__init__: self.value = source.get_last_error()
LucamErrorInit(value) ==
    /\ errValue' = value
    /\ rendered' = NotRendered
    /\ UNCHANGED <<sessionVars, formatVars>>

\* str(error)
LucamErrorStr ==
    /\ rendered' = LucamError_str(errValue)
    /\ UNCHANGED <<errValue, sessionVars, formatVars>>

NextErr ==
    \/ \E value \in ErrValues : LucamErrorInit(value)
    \/ LucamErrorStr

SpecErr == Init /\ [][NextErr]_vars

----------------------------------------------------------------------------
(* Marshalling a Format: assignments to its fields, as_lucam, from_lucam *)

\* values callers store in a Format field
FieldInputs == {-1, 1, UShortMax, UShortMax + 1}

\* a dataclass field assignment
FormatSetField(attr, v) ==
    /\ edits < MaxEdits
    /\ fmtNative.kind = "none"
    /\ fmtIn' = [fmtIn EXCEPT ![attr] = v]
    /\ edits' = edits + 1
    /\ UNCHANGED <<fmtNative, fmtOut, sessionVars, errorVars>>

FormatAsLucam ==
    /\ fmtNative.kind = "none"
    /\ fmtNative' = Format_as_lucam(fmtIn)
    /\ UNCHANGED <<fmtIn, fmtOut, edits, sessionVars, errorVars>>

FormatFromLucam ==
    /\ fmtNative.kind = "struct"
    /\ fmtOut' = [kind |-> "format", value |-> Format_from_lucam(fmtNative.struct)]
    /\ UNCHANGED <<fmtIn, fmtNative, edits, sessionVars, errorVars>>

NextFormat ==
    \/ \E attr \in FormatAttrSet, v \in FieldInputs : FormatSetField(attr, v)
    \/ FormatAsLucam
    \/ FormatFromLucam

SpecFormat == Init /\ [][NextFormat]_vars

----------------------------------------------------------------------------
(* Properties *)

\* the session holds the handle of the camera that is open in the library
SessionOpen == sess = "live" /\ handle = CameraHandle /\ nativeOpen

Failed == result.kind = "LucamError"

AnyCallFailed == \E i \in DOMAIN trace : ~trace[i].ok

\* the native calls of the last operation, each with its symbolic argument
Calls == [i \in DOMAIN trace |-> <<trace[i].fn, trace[i].arg.sym>>]

IsPrefix(p, q) == Len(p) <= Len(q) /\ \A i \in DOMAIN p : p[i] = q[i]

\* the calls white_balance issues when nothing fails
SnapshotSequence ==
    << <<"LucamGetProperty", "LUCAM_PROP_EXPOSURE">>,
       <<"LucamGetProperty", "LUCAM_PROP_GAIN">>,
       <<"LucamGetProperty", "LUCAM_PROP_GAIN_RED">>,
       <<"LucamGetProperty", "LUCAM_PROP_GAIN_BLUE">>,
       <<"LucamGetProperty", "LUCAM_PROP_GAIN_GREEN1">>,
       <<"LucamGetProperty", "LUCAM_PROP_GAIN_GREEN2">>,
       <<"LucamGetFormat", "">> >>

WhiteBalanceSequence ==
    (IF entryFlag THEN << <<"LucamDisableFastFrames", "">> >> ELSE << >>)
    \o << <<"LucamStreamVideoControl", "START_STREAMING">>,
          <<"LucamOneShotAutoWhiteBalance", "">>,
          <<"LucamStreamVideoControl", "STOP_STREAMING">> >>
    \o SnapshotSequence
    \o << <<"LucamEnableFastFrames", "">> >>

C2_EnableDisableFlag ==
    /\ lastOp = "enable_fast_frames" =>
          /\ Len(trace) = 1
          /\ trace[1].ok => result.kind = "ok" /\ fast_frames_enabled
          /\ ~trace[1].ok => Failed /\ fast_frames_enabled = entryFlag
    /\ lastOp = "disable_fast_frames" =>
          /\ Len(trace) = 1
          /\ trace[1].ok => result.kind = "ok" /\ ~fast_frames_enabled
          /\ ~trace[1].ok => Failed /\ fast_frames_enabled = entryFlag

\* a disable that failed while fast frames were enabled
C2_Witness ==
    /\ SessionOpen
    /\ lastOp = "disable_fast_frames"
    /\ ~trace[1].ok
    /\ entryFlag
    /\ fast_frames_enabled

\* C3: a white_balance in which every native call succeeds issues exactly:
\* disable (only if the flag was set on entry), start streaming, one-shot
\* auto white balance, stop streaming, the six property queries and the format
\* query of the default snapshot, enable; streaming is started with the flag
\* false, and enable comes only after a successful stop.
C3_WhiteBalanceOrder ==
    lastOp = "white_balance" /\ result.kind = "ok" =>
        /\ Calls = WhiteBalanceSequence
        /\ \A i \in DOMAIN trace :
              Calls[i] = <<"LucamStreamVideoControl", "START_STREAMING">> => ~trace[i].flag
        /\ \A i \in DOMAIN trace :
              trace[i].fn = "LucamEnableFastFrames" =>
                  \E j \in 1..(i - 1) :
                      /\ Calls[j] = <<"LucamStreamVideoControl", "STOP_STREAMING">>
                      /\ trace[j].ok

\* a fully successful white_balance entered with fast frames enabled
C3_Witness ==
    /\ SessionOpen
    /\ lastOp = "white_balance"
    /\ result.kind = "ok"
    /\ entryFlag
    /\ Len(trace) = WhiteBalanceCalls

\* C4: white_balance raises exactly when one of its native calls fails; the
\* failing call is the last one issued (no stop, no re-enable, no rollback
\* after it) and the calls up to it are the start of the normal sequence; if
\* the flag was set on entry and the failure comes after the disable, the flag
\* ends false; a stream started and not stopped before the failure stays on.
C4_WhiteBalanceFailure ==
    lastOp = "white_balance" =>
        /\ Failed <=> AnyCallFailed
        /\ IsPrefix(Calls, WhiteBalanceSequence)
        /\ Failed =>
              /\ ~trace[Len(trace)].ok
              /\ \A i \in 1..(Len(trace) - 1) : trace[i].ok
              /\ result.value = lastError[handle]
              /\ entryFlag /\ Len(trace) > 1 => ~fast_frames_enabled
              /\ (/\ SessionOpen
                  /\ \E i \in DOMAIN trace :
                        /\ Calls[i] = <<"LucamStreamVideoControl", "START_STREAMING">>
                        /\ trace[i].ok
                  /\ ~\E i \in DOMAIN trace :
                        /\ Calls[i] = <<"LucamStreamVideoControl", "STOP_STREAMING">>
                        /\ trace[i].ok)
                 => nativeStreaming

\* fast frames on at entry, the one-shot white balance fails: flag false,
\* stream left running
C4_Witness ==
    /\ SessionOpen
    /\ lastOp = "white_balance"
    /\ Failed
    /\ entryFlag
    /\ Calls[Len(trace)] = <<"LucamOneShotAutoWhiteBalance", "">>
    /\ ~fast_frames_enabled
    /\ nativeStreaming

\* C5: in every operation, a native call that reports failure makes the
\* operation raise a LucamError carrying the last error code of the handle the
\* call was made on; none is followed by a normal return.
C5_EveryFailureRaises ==
    AnyCallFailed =>
        /\ Failed
        /\ result.value = lastError[trace[Len(trace)].handle]

\* C6: constructing with an index below 1, or with no camera at the index,
\* raises and leaves no session; constructing with a valid index yields a
\* session with the format and the default snapshot fetched and the flag false.
C6_OpenRaisesOrFetches ==
    lastOp = "open" =>
        /\ (lastArg.raw < 1 \/ ~trace[1].ok) => result.kind # "ok" /\ sess = "none"
        /\ (trace[1].ok /\ result.kind = "ok") =>
              /\ sess = "live"
              /\ handle = CameraHandle
              /\ ~fast_frames_enabled
              /\ format # NoFormat
              /\ snapshot.format = format
              /\ width = format.width /\ height = format.height

\* C7: str(error) is the text CODES registers for the value when the value is
\* one of 0..99, and a KeyError, never a text, for every other value.
C7_ErrorText ==
    rendered.kind # "none" =>
        /\ errValue \in 0..MaxCode =>
              /\ rendered.kind = "text"
              /\ rendered.text = CODES[errValue]
              /\ rendered.text # ""
        /\ errValue \notin 0..MaxCode => rendered.kind = "KeyError"

\* an error whose value lies just above the table has been rendered
C7_Witness ==
    /\ rendered.kind = "KeyError"
    /\ errValue = MaxCode + 1

\* the symbol name the naming rule gives a text without spaces: with an
\* underscore, the text upper-cased; without, an underscore before every
\* capital after the first character, then upper-cased
RECURSIVE UnderscoredFrom(_, _)
UnderscoredFrom(text, i) ==
    IF i > Len(text) THEN <<>>
    ELSE (IF IsCapital(text[i]) /\ i > 1 THEN <<"_">> ELSE <<>>)
         \o <<UpperChar(text[i])>> \o UnderscoredFrom(text, i + 1)

RuleName(text) ==
    LUCAM_PROP_ \o (IF Contains(text, "_")
                    THEN [i \in DOMAIN text |-> UpperChar(text[i])]
                    ELSE UnderscoredFrom(text, 1))

SessionClosed == sess = "live" /\ handle = CameraHandle /\ ~nativeOpen

\* C10: camera_close issues the native close, raises exactly when it reports
\* failure, and either way leaves the handle, the flag and the cached format,
\* frame rate, size and snapshot as they were; an operation run on a closed
\* session still issues its native calls, all with the handle the session kept.
C10_CloseKeepsSession ==
    [][/\ lastOp' = "camera_close" =>
             /\ Calls' = << <<"LucamCameraClose", "">> >>
             /\ trace'[1].handle = handle
             /\ result'.kind = (IF trace'[1].ok THEN "ok" ELSE "LucamError")
             /\ sess' = sess
             /\ handle' = handle
             /\ fast_frames_enabled' = fast_frames_enabled
             /\ format' = format
             /\ framerate' = framerate
             /\ width' = width
             /\ height' = height
             /\ snapshot' = snapshot
       /\ SessionClosed =>
             /\ handle' = handle
             /\ result'.kind # "AttributeError" => trace' # <<>>
             /\ \A i \in DOMAIN trace' : trace'[i].handle = handle
      ]_vars

\* a frame was requested on a closed session and the call went out with the
\* released handle
C10_Witness ==
    /\ SessionClosed
    /\ lastOp = "take_fast_frame"
    /\ Len(trace) = 1
    /\ trace[1].handle = CameraHandle

\* the operation issued a format query that the library answered
GotFormat(calls) == \E i \in DOMAIN calls : calls[i].fn = "LucamGetFormat" /\ calls[i].ok

\* C11: in a session, after every operation, the cached width and height are
\* those of the cached Format, and format and frame rate are the ones the
\* camera reported together; an operation in which no format query succeeded
\* (a failing get_format among them) leaves format, framerate, width and height
\* as they were; get_format issues the one query and raises exactly when it
\* fails; and the buffer take_fast_frame hands to the library has the cached
\* Format's height by its width.
C11_CachedSize ==
    [][/\ sess' = "live" =>
             /\ width' = format'.width
             /\ height' = format'.height
             /\ \E f \in CameraFormats :
                   format' = Format_from_lucam(f) /\ framerate' = CameraRate(f)
       /\ (sess = "live" /\ ~GotFormat(trace')) =>
             /\ format' = format
             /\ framerate' = framerate
             /\ width' = width
             /\ height' = height
       /\ lastOp' = "get_format" =>
             /\ Calls' = << <<"LucamGetFormat", "">> >>
             /\ result'.kind = (IF trace'[1].ok THEN "ok" ELSE "LucamError")
       /\ lastOp' = "take_fast_frame" =>
             /\ Calls' = << <<"LucamTakeFastFrame", "">> >>
             /\ trace'[1].shape = <<format.height, format.width>>
             /\ trace'[1].shape = <<format'.height, format'.width>>
      ]_vars

\* a frame was taken on an open camera whose cached format is the largest one,
\* into a buffer of that format's height by its width
C11_Witness ==
    /\ SessionOpen
    /\ lastOp = "take_fast_frame"
    /\ result.kind = "ok"
    /\ format = Format_from_lucam(CameraFormat(MaxFmt))
    /\ trace[1].shape = <<MaxFmt + 1, MaxFmt>>

\* C12: a white_balance in which every native call succeeds returns with the
\* fast-frames flag true, its last call being the enable, whatever the flag
\* was at entry; on an open camera the native fast-frame mode is then enabled.
C12_WhiteBalanceEnables ==
    (lastOp = "white_balance" /\ ~AnyCallFailed) =>
        /\ result.kind = "ok"
        /\ fast_frames_enabled
        /\ trace[Len(trace)].fn = "LucamEnableFastFrames"
        /\ SessionOpen => nativeFastFrames

\* fast frames were disabled when white_balance was entered on an open camera,
\* every call succeeded, and they are enabled now
C12_Witness ==
    /\ SessionOpen
    /\ lastOp = "white_balance"
    /\ ~AnyCallFailed
    /\ ~entryFlag
    /\ ~trace[1].flag
    /\ fast_frames_enabled
    /\ nativeFastFrames

====
